---- MODULE Spec2Model ----
(***************************************************************************)
(* A model of fruityger: the module dispatcher (Client), the bounded       *)
(* streaming transport between a download producer and its consumer, and   *)
(* the remux engine.                                                       *)
(***************************************************************************)
EXTENDS Integers, Sequences, FiniteSets, TLC

VARIABLES
    modules,    \* Client.modules: Vec<Box<dyn Module>>, in registration order
    last,       \* the last dispatcher call: its arguments, result and module calls
    stream,     \* one BytesStream: source, producer task, channel, consumer handle
    remuxSt,    \* one Client::remux call: its inputs, the output container, the result
    contexts    \* the FFI contexts: client modules and download registries of each

vars == <<modules, last, stream, remuxSt, contexts>>

(***************************************************************************)
(* Bounds of the model.                                                    *)
(***************************************************************************)
MaxModules == 3
\* The most chunks a download source yields.
MaxChunks == 17
\* The most streams an input container of remux holds.
MaxStreams == 2

\* A value standing for "no value" (Option::None, no call made yet).
NONE == "none"

(***************************************************************************)
(* Module dispatcher: src/src/lib.rs                                       *)
(***************************************************************************)

\* Service names a module may answer to name() with, and names a caller may
\* ask search() for ("Yandex" is the name of no module).
ModuleNames == {"yandex", "qobuz"}
ServiceNames == ModuleNames \cup {"Yandex"}

\* URLs a caller may pass to download().
Urls == {"https://music.yandex.ru/album/1/track/2", "https://open.qobuz.com/track/5"}

\* A module as the Client sees it through the Module trait: what name()
\* returns and the urls for which url_supported() is true.
Modules == [name : ModuleNames, supported : SUBSET Urls]

\* The outcome of the network request a module makes when it is called.
Outcomes == {"ok", "err"}

name(module) == module.name

url_supported(module, url) == url \in module.supported

\* module.download(url) of the module registered at index i: the value it
\* returns depends on the module and on what its service answers.
module_download(mods, i, url, env) ==
    [ok |-> env = "ok", error |-> IF env = "ok" THEN NONE ELSE "ServiceError",
     by |-> i, url |-> url]

\* module.search(query, page) of the module registered at index i.
module_search(mods, i, query, env) ==
    [ok |-> env = "ok", error |-> IF env = "ok" THEN NONE ELSE "ServiceError",
     by |-> i, query |-> query]

NoAvailableModules == [ok |-> FALSE, error |-> "NoAvailableModules", by |-> 0]

\* Client::add_module: push at the end.
add_module(mods, module) == Append(mods, module)

RECURSIVE download_from(_, _, _, _)
\* The for loop of Client::download from index i on.
download_from(mods, i, url, env) ==
    IF i > Len(mods)
    THEN [result |-> NoAvailableModules, calls |-> <<>>]
    ELSE IF ~url_supported(mods[i], url)
         THEN download_from(mods, i + 1, url, env)
         ELSE [result |-> module_download(mods, i, url, env), calls |-> <<i>>]

RECURSIVE download_fallback_from(_, _, _, _)
\* A download loop that tries the next supporting module when one fails.
download_fallback_from(mods, i, url, env) ==
    IF i > Len(mods)
    THEN [result |-> NoAvailableModules, calls |-> <<>>]
    ELSE IF ~url_supported(mods[i], url)
         THEN download_fallback_from(mods, i + 1, url, env)
         ELSE LET r == module_download(mods, i, url, env)
                  rest == download_fallback_from(mods, i + 1, url, env)
              IN  IF r.ok \/ rest.calls = <<>>
                  THEN [result |-> r, calls |-> <<i>>]
                  ELSE [result |-> rest.result, calls |-> <<i>> \o rest.calls]

Client_download_fallback(mods, url, env) == download_fallback_from(mods, 1, url, env)

\* A download that hands an unmatched url to the first registered module.
Client_download_default(mods, url, env) ==
    LET r == download_from(mods, 1, url, env)
    IN  IF r.calls = <<>> /\ Len(mods) > 0
        THEN [result |-> module_download(mods, 1, url, env), calls |-> <<1>>]
        ELSE r

\* Client::download.
Client_download(mods, url, env) == download_from(mods, 1, url, env)

RECURSIVE search_from(_, _, _, _, _)
\* The for loop of Client::search from index i on.
search_from(mods, i, module_name, query, env) ==
    IF i > Len(mods)
    THEN [result |-> NoAvailableModules, calls |-> <<>>]
    ELSE IF name(mods[i]) # module_name
         THEN search_from(mods, i + 1, module_name, query, env)
         ELSE [result |-> module_search(mods, i, query, env), calls |-> <<i>>]

RECURSIVE search_last_from(_, _, _, _, _)
\* A search loop in which a later module of the same name replaces an earlier one.
search_last_from(mods, i, module_name, query, env) ==
    IF i > Len(mods)
    THEN [result |-> NoAvailableModules, calls |-> <<>>]
    ELSE LET rest == search_last_from(mods, i + 1, module_name, query, env)
         IN  IF name(mods[i]) # module_name \/ rest.calls # <<>>
             THEN rest
             ELSE [result |-> module_search(mods, i, query, env), calls |-> <<i>>]

Client_search_last(mods, module_name, query, env) ==
    search_last_from(mods, 1, module_name, query, env)

\* Client::search.
Client_search(mods, module_name, query, env) ==
    search_from(mods, 1, module_name, query, env)

Queries == {"periphery scarlet"}

NoCall == [op |-> NONE, arg |-> NONE, result |-> NONE, calls |-> <<>>]

\* A context slot that holds no context (never created, or freed).
NoContext ==
    [live |-> FALSE, client |-> <<>>, track_downloads |-> <<>>, cover_downloads |-> <<>>]

\* The context slots of the FFI model.
ContextIds == {1, 2}

NoContexts == [c \in ContextIds |-> NoContext]

\* No download started: no channel, no producer task, nothing registered.
IdleStream ==
    [phase |-> "idle", kind |-> NONE, total |-> 0, ending |-> NONE,
     fetched |-> 0, ppc |-> NONE, pending |-> <<>>, buf |-> <<>>,
     rx |-> FALSE, registered |-> FALSE,
     received |-> <<>>, ended |-> FALSE,
     lastPoll |-> NONE, endReturned |-> FALSE, successAfterEnd |-> FALSE,
     srcFailed |-> FALSE, sendFailed |-> FALSE, fetchedAfterFailedSend |-> FALSE]

\* No remux call made.
IdleRemux == [phase |-> "idle"]

InitDispatch ==
    /\ contexts = NoContexts
    /\ modules = <<>>
    /\ last = NoCall
    /\ stream = IdleStream
    /\ remuxSt = IdleRemux

AddModule(module) ==
    /\ Len(modules) < MaxModules
    /\ modules' = add_module(modules, module)
    /\ last' = [NoCall EXCEPT !.op = "add_module"]
    /\ UNCHANGED <<stream, remuxSt, contexts>>

Download(url, env) ==
    /\ LET r == Client_download(modules, url, env)
       IN  last' = [op |-> "download", arg |-> url,
                    result |-> r.result, calls |-> r.calls]
    /\ UNCHANGED <<modules, stream, remuxSt, contexts>>

Search(module_name, query, env) ==
    /\ LET r == Client_search(modules, module_name, query, env)
       IN  last' = [op |-> "search", arg |-> module_name,
                    result |-> r.result, calls |-> r.calls]
    /\ UNCHANGED <<modules, stream, remuxSt, contexts>>

NextDispatch ==
    \/ \E module \in Modules : AddModule(module)
    \/ \E url \in Urls, env \in Outcomes : Download(url, env)
    \/ \E module_name \in ServiceNames, query \in Queries, env \in Outcomes :
          Search(module_name, query, env)

SpecDispatch == InitDispatch /\ [][NextDispatch]_vars

(***************************************************************************)
(* Streaming transport: the producer tasks of src/src/yandex.rs (track)    *)
(* and src/src/ffi.rs (cover), the bounded channel between a producer and  *)
(* the BytesStream, and the consumer of src/src/ffi.rs (poll_impl).        *)
(***************************************************************************)

\* mpsc::channel(16)
ChannelCapacity == 16

ProducerKinds == {"track", "cover"}

\* What the source (the HTTP response) does after its last chunk: it ends
\* (chunk() is Ok(None)) or it fails (chunk() is Err).
Endings == {"end", "fail"}

\* The items of a BytesStream, Result<Bytes, Error>: Ok(the k-th chunk of the
\* source) and Err(Error::ConnectionError(e)).
OkItem(k) == [ok |-> TRUE, chunk |-> k]
ErrItem == [ok |-> FALSE, chunk |-> 0]

\* The state right after the channel is made, the stream is registered and
\* the producer task is spawned.
spawn(kind, total, ending) ==
    [IdleStream EXCEPT !.phase = "live", !.kind = kind, !.total = total,
                       !.ending = ending, !.ppc = "fetch", !.rx = TRUE,
                       !.registered = TRUE]

\* response.chunk().await: Ok(Some(chunk)), Ok(None) or Err(e).
response_chunk(s) ==
    IF s.fetched < s.total THEN [tag |-> "some", chunk |-> s.fetched + 1]
    ELSE IF s.ending = "end" THEN [tag |-> "none", chunk |-> 0]
    ELSE [tag |-> "err", chunk |-> 0]

\* The sender half is owned by the producer task: it is dropped when the task ends.
tx_dropped(s) == s.ppc = "done"

\* tx.send(item).await completes when the receiver is gone (with Err) or when
\* the buffer has a free slot; otherwise the sender is suspended.
send_unbounded_ready(s) == TRUE

send_ready(s) == ~s.rx \/ Len(s.buf) < ChannelCapacity

\* Whether the completed send is Ok.
send_ok(s) == s.rx

\* stream.next().await (under block_on) completes when an item is buffered or
\* every sender is dropped; otherwise the consumer is suspended.
next_nonblocking_ready(s) == TRUE

next_ready(s) == s.buf # <<>> \/ tx_dropped(s)

\* The producer after a fetch, by the loop of each producer task.
\* Yandex::download: while let Ok(chunk) = response.chunk().await { if let
\* Some(chunk) = chunk { send } else { break } }.
track_after_fetch(s) ==
    LET r == response_chunk(s)
    IN  CASE r.tag = "some" -> [s EXCEPT !.fetched = @ + 1, !.pending = <<OkItem(r.chunk)>>, !.ppc = "send"]
          [] r.tag = "none" -> [s EXCEPT !.ppc = "done"]
          [] r.tag = "err"  -> [s EXCEPT !.ppc = "done", !.srcFailed = TRUE]

\* download_cover: Ok(Some(v)) => send Ok(v); Ok(None) => return;
\* Err(e) => send Err and return.
cover_after_fetch(s) ==
    LET r == response_chunk(s)
    IN  CASE r.tag = "some" -> [s EXCEPT !.fetched = @ + 1, !.pending = <<OkItem(r.chunk)>>, !.ppc = "send"]
          [] r.tag = "none" -> [s EXCEPT !.ppc = "done"]
          [] r.tag = "err"  -> [s EXCEPT !.pending = <<ErrItem>>, !.ppc = "send", !.srcFailed = TRUE]

\* The channel and the bookkeeping after a completed send of s.pending.
sent(s) ==
    IF send_ok(s)
    THEN [s EXCEPT !.buf = @ \o s.pending, !.pending = <<>>]
    ELSE [s EXCEPT !.pending = <<>>, !.sendFailed = TRUE]

\* A track producer whose test of the send result is inverted: it stops after
\* a send that succeeded.
track_after_send_inverted(s) ==
    [sent(s) EXCEPT !.ppc = IF send_ok(s) THEN "done" ELSE "fetch"]

\* Yandex::download: if let Err(_) = tx.send(Ok(chunk)).await { break }.
track_after_send(s) ==
    [sent(s) EXCEPT !.ppc = IF send_ok(s) THEN "fetch" ELSE "done"]

\* download_cover: let _ = tx.send(..).await; the loop goes on after a chunk
\* and the task returns after an Err item.
cover_after_send(s) ==
    [sent(s) EXCEPT !.ppc = IF s.pending = <<ErrItem>> THEN "done" ELSE "fetch"]

\* poll_impl on a registered stream: Some(Ok(chunk)) => Success,
\* Some(Err(_)) => IteratorEnd, None => IteratorEnd.
poll_code(s) ==
    IF s.buf = <<>> THEN "IteratorEnd"
    ELSE IF Head(s.buf) = ErrItem THEN "IteratorEnd" ELSE "Success"

\* The ErrorCode a poll returned, with what the caller has seen so far.
returned(s, code) ==
    [s EXCEPT !.lastPoll = code,
              !.endReturned = @ \/ code = "IteratorEnd",
              !.successAfterEnd = @ \/ (s.endReturned /\ code = "Success")]

poll_registered(s) ==
    IF s.buf = <<>>
    THEN returned([s EXCEPT !.ended = TRUE], poll_code(s))
    ELSE returned([s EXCEPT !.buf = Tail(@), !.received = Append(@, Head(s.buf))],
                  poll_code(s))

InitStream ==
    /\ contexts = NoContexts
    /\ modules = <<>>
    /\ last = NoCall
    /\ stream = IdleStream
    /\ remuxSt = IdleRemux

\* download_track / download_cover: make the channel, register the stream,
\* spawn the producer.
StartDownload(kind, total, ending) ==
    /\ stream.phase = "idle"
    /\ stream' = spawn(kind, total, ending)
    /\ UNCHANGED <<modules, last, remuxSt, contexts>>

\* A fetch made after a send has failed is remembered.
Observed(s) == [s EXCEPT !.fetchedAfterFailedSend = @ \/ stream.sendFailed]

TrackFetch ==
    /\ stream.phase = "live" /\ stream.kind = "track" /\ stream.ppc = "fetch"
    /\ stream' = Observed(track_after_fetch(stream))
    /\ UNCHANGED <<modules, last, remuxSt, contexts>>

TrackSend ==
    /\ stream.phase = "live" /\ stream.kind = "track" /\ stream.ppc = "send"
    /\ send_ready(stream)
    /\ stream' = track_after_send(stream)
    /\ UNCHANGED <<modules, last, remuxSt, contexts>>

CoverFetch ==
    /\ stream.phase = "live" /\ stream.kind = "cover" /\ stream.ppc = "fetch"
    /\ stream' = Observed(cover_after_fetch(stream))
    /\ UNCHANGED <<modules, last, remuxSt, contexts>>

CoverSend ==
    /\ stream.phase = "live" /\ stream.kind = "cover" /\ stream.ppc = "send"
    /\ send_ready(stream)
    /\ stream' = cover_after_send(stream)
    /\ UNCHANGED <<modules, last, remuxSt, contexts>>

\* poll_download_track / poll_download_cover on the id of a registered stream.
Poll ==
    /\ stream.phase = "live" /\ stream.registered
    /\ next_ready(stream)
    /\ stream' = poll_registered(stream)
    /\ UNCHANGED <<modules, last, remuxSt, contexts>>

\* poll on an id the registry no longer holds.
PollNotFound ==
    /\ stream.phase = "live" /\ ~stream.registered
    /\ stream' = returned(stream, "NotFound")
    /\ UNCHANGED <<modules, last, remuxSt, contexts>>

\* The FFI remux request takes the stream out of its registry; when it then
\* returns early the stream is dropped: the receiver closes and what it
\* buffered is discarded.
DropHandle ==
    /\ stream.phase = "live" /\ stream.registered
    /\ stream' = [stream EXCEPT !.registered = FALSE, !.rx = FALSE, !.buf = <<>>]
    /\ UNCHANGED <<modules, last, remuxSt, contexts>>

Producer == TrackFetch \/ TrackSend \/ CoverFetch \/ CoverSend

NextStream ==
    \/ \E kind \in ProducerKinds, total \in 0..MaxChunks, ending \in Endings :
          StartDownload(kind, total, ending)
    \/ TrackFetch
    \/ TrackSend
    \/ CoverFetch
    \/ CoverSend
    \/ Poll
    \/ PollNotFound
    \/ DropHandle

SpecStream == InitStream /\ [][NextStream]_vars

\* The runtime runs a spawned producer whenever a call blocks on it, and a
\* consumer that keeps polling polls again.
SpecStreamFair ==
    InitStream /\ [][NextStream]_vars /\ WF_vars(Producer) /\ WF_vars(Poll)

(***************************************************************************)
(* Remux engine: Client::remux of src/src/lib.rs (the same algorithm as    *)
(* remux of src/src/remux.rs).                                             *)
(***************************************************************************)

\* media::Type of a stream.
MediaTypes == {"Audio", "Video", "Subtitle"}

\* AudioFormat values (the formats Yandex::supported_formats lists).
AudioFormats ==
    {[variant |-> "Flac", bitrate |-> 0], [variant |-> "Mp3", bitrate |-> 128],
     [variant |-> "Aac", bitrate |-> 256]}

\* AudioFormat::extension.
extension(format) ==
    CASE format.variant = "Flac" -> "flac"
      [] format.variant = "Mp3" -> "mp3"
      [] format.variant = "Aac" -> "m4a"

\* Sequences over S of length at most n.
SeqsUpTo(S, n) == UNION {[1..k -> S] : k \in 0..n}

\* How many times the packets of an input go round its streams.
Rounds == {0, 2}

\* The packets of an input container as its demuxer yields them: `rounds`
\* packets of every stream, interleaved, each with the index of its stream,
\* its place in the file and a byte position.
packets_of(streams, rounds) ==
    [j \in 1..(rounds * Len(streams)) |->
        [stream |-> (j - 1) % Len(streams), seq |-> j, position |-> 100 * j]]

\* An opened input container: its streams (index, medium and codec tag of
\* each) and its packets.
container(media, rounds) ==
    [streams |-> [i \in 1..Len(media) |->
                     [index |-> i - 1, medium |-> media[i], codec_tag |-> 7]],
     packets |-> packets_of(media, rounds)]

Containers == {container(media, r) : media \in SeqsUpTo(MediaTypes, MaxStreams), r \in Rounds}

\* The library call that fails during a remux, if any; a packet write fails
\* at its nth call for that input.
Faults ==
    [site : {"none", "open_audio", "open_cover", "open_output", "add_audio_stream",
             "add_cover_stream", "write_header", "write_trailer"}, nth : {0}]
    \cup [site : {"write_audio_packet", "write_cover_packet"}, nth : {1, 2}]

\* The optional fields of Metadata, in the order remux sets them.
OptionalFields ==
    <<"album", "album_artist", "composer", "copyright", "creation_time", "date",
      "disc", "genre", "language", "performer", "publisher", "track">>

OptionalFieldSet == {OptionalFields[i] : i \in 1..Len(OptionalFields)}

\* A Metadata value: title, artist, and the optional fields that are Some.
metadata_of(title, artist, present) ==
    [f \in {"title", "artist"} \cup OptionalFieldSet |->
        IF f = "title" THEN <<title>>
        ELSE IF f = "artist" THEN <<artist>>
        ELSE IF f \in present THEN <<"v_" \o f>> ELSE <<>>]

Metadatas == {metadata_of("T", "A", {}), metadata_of("T", "A", {"album", "track"})}

\* Every Metadata value by which optional fields are Some, with a title and an
\* artist that may be empty strings.
AllMetadatas ==
    {metadata_of(t, a, present) :
        t \in {"T", ""}, a \in {"A"}, present \in SUBSET OptionalFieldSet}

\* The output container before format::output: nothing on disk.
NoOutput ==
    [created |-> FALSE, streams |-> <<>>, metadata |-> <<>>, header |-> FALSE,
     packets |-> <<>>, trailer |-> FALSE]

\* Err(Error::RemuxError(cause)).
RemuxError(cause) == [ok |-> FALSE, error |-> "RemuxError", cause |-> cause]

RECURSIVE last_stream(_, _, _)
\* The same loop without its break: the last stream of the medium.
last_stream(streams, medium, i) ==
    IF i >= Len(streams) THEN -1
    ELSE LET later == last_stream(streams, medium, i + 1)
         IN  IF later # -1 THEN later
             ELSE IF streams[i + 1].medium = medium THEN i ELSE -1

RECURSIVE first_stream(_, _, _)
\* for (i, stream) in input.streams().enumerate(): the index of the first
\* stream of the medium from index i (0-based) on, or -1.
first_stream(streams, medium, i) ==
    IF i >= Len(streams) THEN -1
    ELSE IF streams[i + 1].medium # medium THEN first_stream(streams, medium, i + 1)
    ELSE i

\* add_stream that sets the attached-picture disposition on every stream.
add_stream_all_pictures(out, source, attached_pic) ==
    [out EXCEPT !.streams = Append(@, [medium |-> source.medium, codec_tag |-> 0,
                                       parameters_of |-> source.index,
                                       attached_pic |-> TRUE])]

\* output.add_stream + set_parameters (the output stream has the parameters
\* of the source stream) + codec_tag = 0 (+ the attached-picture disposition
\* for the cover).
add_stream(out, source, attached_pic) ==
    [out EXCEPT !.streams = Append(@, [medium |-> source.medium, codec_tag |-> 0,
                                       parameters_of |-> source.index,
                                       attached_pic |-> attached_pic])]

RECURSIVE set_optional_or_default(_, _, _)
\* dict.set(<field>, &metadata.<field>.unwrap_or_default()), field by field.
set_optional_or_default(dict, metadata, i) ==
    IF i > Len(OptionalFields) THEN dict
    ELSE LET f == OptionalFields[i]
         IN  set_optional_or_default(
                 dict \cup {<<f, IF metadata[f] # <<>> THEN metadata[f][1] ELSE "">>},
                 metadata, i + 1)

RECURSIVE set_optional(_, _, _)
\* if let Some(v) = metadata.<field> { dict.set(<field>, &v) }, field by field.
set_optional(dict, metadata, i) ==
    IF i > Len(OptionalFields) THEN dict
    ELSE LET f == OptionalFields[i]
         IN  set_optional(IF metadata[f] # <<>> THEN dict \cup {<<f, metadata[f][1]>>} ELSE dict,
                          metadata, i + 1)

\* The Dictionary remux builds: a set of <<key, value>> pairs.
build_dict(metadata) ==
    set_optional({<<"title", metadata["title"][1]>>, <<"artist", metadata["artist"][1]>>},
                 metadata, 1)

RECURSIVE copy_all_packets(_, _, _, _, _, _, _)
\* The same loop without the test of the packet's stream.
copy_all_packets(out, packets, i, selected, out_index, failNth, written) ==
    IF i > Len(packets) THEN [out |-> out, ok |-> TRUE]
    ELSE IF written + 1 = failNth
         THEN [out |-> out, ok |-> FALSE]
         ELSE copy_all_packets(
                  [out EXCEPT !.packets =
                       Append(@, [stream |-> out_index, position |-> -1,
                                  input |-> IF out_index = 0 THEN "audio" ELSE "cover",
                                  seq |-> packets[i].seq])],
                  packets, i + 1, selected, out_index, failNth, written + 1)

RECURSIVE copy_packets(_, _, _, _, _, _, _)
\* for (stream, packet) in input.packets(): packets of another stream are
\* skipped; a packet of the selected stream is given the output stream index,
\* position -1, and written. `written` counts the writes made for this input;
\* the write that the fault names fails and ends the loop.
copy_packets(out, packets, i, selected, out_index, failNth, written) ==
    IF i > Len(packets) THEN [out |-> out, ok |-> TRUE]
    ELSE IF packets[i].stream # selected
         THEN copy_packets(out, packets, i + 1, selected, out_index, failNth, written)
         ELSE IF written + 1 = failNth
              THEN [out |-> out, ok |-> FALSE]
              ELSE copy_packets(
                       [out EXCEPT !.packets =
                            Append(@, [stream |-> out_index, position |-> -1,
                                       input |-> IF out_index = 0 THEN "audio" ELSE "cover",
                                       seq |-> packets[i].seq])],
                       packets, i + 1, selected, out_index, failNth, written + 1)

\* Whether remux goes on to write the header after selecting the streams.
streams_found_cover_only(input_audio_stream, input_cover_stream) ==
    input_cover_stream # -1

streams_found(input_audio_stream, input_cover_stream) ==
    ~(input_audio_stream = -1 \/ input_cover_stream = -1)

\* A result whose format is read back from the extension of the output path,
\* which has no bitrate.
remuxed_by_extension(format) ==
    [ok |-> TRUE, error |-> NONE, cause |-> NONE,
     format |-> [variant |-> format.variant, bitrate |-> 0],
     extension |-> extension(format)]

\* Ok((audio.0, output_path)): the format remux was given, and the extension
\* of the output path, which was built from audio.0.extension().
remuxed(format) ==
    [ok |-> TRUE, error |-> NONE, cause |-> NONE,
     format |-> format, extension |-> extension(format)]

\* Client::remux, from the opened inputs to the trailer: the output container
\* it leaves and the result it returns.
remux(in) ==
    LET fault == in.fault
        failed(out) == [out |-> out, result |-> RemuxError("Library")]
        nth(site) == IF fault.site = site THEN fault.nth ELSE 0
    IN
    IF fault.site \in {"open_audio", "open_cover"} THEN failed(NoOutput)
    ELSE IF fault.site = "open_output" THEN failed(NoOutput)
    ELSE
    LET out0 == [NoOutput EXCEPT !.created = TRUE]
        input_audio_stream == first_stream(in.audio.streams, "Audio", 0)
        out1 == IF input_audio_stream = -1 THEN out0
                ELSE add_stream(out0, in.audio.streams[input_audio_stream + 1], FALSE)
    IN
    IF input_audio_stream # -1 /\ fault.site = "add_audio_stream" THEN failed(out0)
    ELSE
    LET input_cover_stream == first_stream(in.cover.streams, "Video", 0)
        out2 == IF input_cover_stream = -1 THEN out1
                ELSE add_stream(out1, in.cover.streams[input_cover_stream + 1], TRUE)
    IN
    IF input_cover_stream # -1 /\ fault.site = "add_cover_stream" THEN failed(out1)
    ELSE IF ~streams_found(input_audio_stream, input_cover_stream)
    THEN [out |-> out2, result |-> RemuxError("StreamNotFound")]
    ELSE
    LET out3 == [out2 EXCEPT !.metadata = <<build_dict(in.metadata)>>]
    IN
    IF fault.site = "write_header" THEN failed(out3)
    ELSE
    LET out4 == [out3 EXCEPT !.header = TRUE]
        a == copy_packets(out4, in.audio.packets, 1, input_audio_stream, 0,
                          nth("write_audio_packet"), 0)
    IN
    IF ~a.ok THEN failed(a.out)
    ELSE
    LET c == copy_packets(a.out, in.cover.packets, 1, input_cover_stream, 1,
                          nth("write_cover_packet"), 0)
    IN
    IF ~c.ok THEN failed(c.out)
    ELSE IF fault.site = "write_trailer" THEN failed(c.out)
    ELSE [out |-> [c.out EXCEPT !.trailer = TRUE], result |-> remuxed(in.format)]

\* The files of the working directory when remux is called: the audio file and
\* the cover file whose paths it is given.
StagedInputs == {"audio", "cover"}

\* The files of the working directory when remux returns: remux removes no
\* file and no directory on any path, so the inputs are still there, and so is
\* the output file once format::output has created it.
workdir_after(workdir, out) ==
    workdir \cup (IF out.created THEN {"output"} ELSE {})

\* The remux calls considered: an audio format with its audio input, a cover
\* input, a Metadata value and what the library does.
RemuxInputs ==
    [format : AudioFormats, audio : Containers, cover : Containers,
     metadata : Metadatas, fault : Faults]

InitRemux ==
    /\ contexts = NoContexts
    /\ modules = <<>>
    /\ last = NoCall
    /\ stream = IdleStream
    /\ \E in \in RemuxInputs :
           remuxSt = [phase |-> "called", in |-> in, workdir |-> StagedInputs]

\* Client::remux runs to completion.
Remux ==
    /\ remuxSt.phase = "called"
    /\ LET r == remux(remuxSt.in)
       IN  remuxSt' = [phase |-> "returned", in |-> remuxSt.in,
                       workdir |-> workdir_after(remuxSt.workdir, r.out),
                       out |-> r.out, result |-> r.result]
    /\ UNCHANGED <<modules, last, stream, contexts>>

NextRemux == Remux

SpecRemux == InitRemux /\ [][NextRemux]_vars

\* The remux calls considered for the tag dictionary: inputs that have the
\* streams remux selects, every Metadata value, and a library that works or
\* fails at the header.
TagInputs ==
    [format : {[variant |-> "Flac", bitrate |-> 0]},
     audio : {container(<<"Audio">>, 2)}, cover : {container(<<"Video">>, 2)},
     metadata : AllMetadatas,
     fault : {[site |-> "none", nth |-> 0], [site |-> "write_header", nth |-> 0]}]

InitTags ==
    /\ contexts = NoContexts
    /\ modules = <<>>
    /\ last = NoCall
    /\ stream = IdleStream
    /\ \E in \in TagInputs :
           remuxSt = [phase |-> "called", in |-> in, workdir |-> StagedInputs]

SpecTags == InitTags /\ [][NextRemux]_vars

(***************************************************************************)
(* The format tables: extension and MIME type of an audio or cover format, *)
(* as lib.rs defines them on its enums and as format.rs defines them in    *)
(* the Format trait.                                                       *)
(***************************************************************************)

\* The largest bitrate considered (the field is a u16).
MaxBitrate == 320

\* AudioFormat values: Flac, Mp3(b), Aac(b).
AllAudioFormats ==
    {[variant |-> "Flac", bitrate |-> 0]}
    \cup [variant : {"Mp3", "Aac"}, bitrate : 0..MaxBitrate]

\* CoverFormat values; the second variant is Jpg in lib.rs, Jpeg in format.rs.
CoverFormats == [variant : {"Png", "Jpg"}]

\* A MIME type made from the extension.
mime_type_of_extension(format) == "audio/" \o extension(format)

\* lib.rs, AudioFormat::mime_type.
mime_type(format) ==
    CASE format.variant = "Flac" -> "audio/flac"
      [] format.variant = "Mp3" -> "audio/mpeg"
      [] format.variant = "Aac" -> "audio/mp4"

\* lib.rs, CoverFormat::extension.
CoverFormat_extension(format) ==
    CASE format.variant = "Png" -> "png"
      [] format.variant = "Jpg" -> "jpg"

\* lib.rs, CoverFormat::mime_type.
CoverFormat_mime_type(format) ==
    CASE format.variant = "Png" -> "image/png"
      [] format.variant = "Jpg" -> "image/jpeg"

\* The format.rs value of a lib.rs format: the same variant, Jpg being Jpeg.
format_rs(format) ==
    IF format.variant = "Jpg" THEN [variant |-> "Jpeg"] ELSE format

\* format.rs, Format::extension for AudioFormat and for CoverFormat.
Format_extension(format) ==
    CASE format.variant = "Flac" -> "flac"
      [] format.variant = "Mp3" -> "mp3"
      [] format.variant = "Aac" -> "m4a"
      [] format.variant = "Png" -> "png"
      [] format.variant = "Jpeg" -> "jpg"

\* format.rs, Format::mime_type for AudioFormat and for CoverFormat.
Format_mime_type(format) ==
    CASE format.variant = "Flac" -> "audio/flac"
      [] format.variant = "Mp3" -> "audio/mpeg"
      [] format.variant = "Aac" -> "audio/mp4"
      [] format.variant = "Png" -> "image/png"
      [] format.variant = "Jpeg" -> "image/jpeg"

InitFormat ==
    /\ contexts = NoContexts
    /\ modules = <<>>
    /\ stream = IdleStream
    /\ remuxSt = IdleRemux
    /\ \E format \in AllAudioFormats \cup CoverFormats :
           last = [op |-> "format", arg |-> format]

\* extension() and mime_type() of a format, by both definitions.
Describe ==
    /\ last.op = "format"
    /\ LET format == last.arg
           audio == format \in AllAudioFormats
       IN  last' = [op |-> "described", arg |-> format,
                    lib |-> IF audio
                            THEN <<extension(format), mime_type(format)>>
                            ELSE <<CoverFormat_extension(format), CoverFormat_mime_type(format)>>,
                    trait |-> <<Format_extension(format_rs(format)),
                                Format_mime_type(format_rs(format))>>]
    /\ UNCHANGED <<modules, stream, remuxSt, contexts>>

NextFormat == Describe

SpecFormat == InitFormat /\ [][NextFormat]_vars

(***************************************************************************)
(* The FFI layer: src/src/ffi.rs. A context owns a Client and two          *)
(* registries of downloads, keyed by random ids.                           *)
(***************************************************************************)

\* The most modules added to the client of one context.
MaxFfiModules == 2

\* The ids rand::rng().random() returns: for a track or a remuxed track, and
\* for a cover (an id of DownloadIds that is no cover's can still be asked for).
DownloadIds == {1, 2}
CoverIds == {1}

\* The module names and the parameter keys an AddModule request may carry.
RequestedNames == {"yandex", "qobuz", "deezer"}
ParamNames == {"token", "app_id", "app_secret"}

\* The audio format of the downloads registered through the FFI.
FfiAudioFormats == {[variant |-> "Mp3", bitrate |-> 320]}

\* What the server of a cover answers: no response, or a content type.
CoverResponses == {"error", "image/jpeg", "text/html"}

\* What the consumer's stream yields at a poll: a chunk, an Err item, the end.
PollItems == {"chunk", "err", "end"}

\* Yandex::new(token), Qobuz::new(token, app_id, app_secret) as the client
\* sees them: the name and the urls the module supports.
new_module(module_name) ==
    [name |-> module_name,
     supported |-> IF module_name = "yandex"
                   THEN {"https://music.yandex.ru/album/1/track/2"}
                   ELSE {"https://open.qobuz.com/track/5"}]

\* HashMap::insert and HashMap::remove.
insert(map, id, value) ==
    [k \in (DOMAIN map) \cup {id} |-> IF k = id THEN value ELSE map[k]]

remove(map, id) == [k \in (DOMAIN map) \ {id} |-> map[k]]

Ok(id) == [status |-> "Ok", error |-> NONE, id |-> id]
Err(message) == [status |-> "Err", error |-> message, id |-> 0]

\* create_context.
create_context ==
    [live |-> TRUE, client |-> <<>>, track_downloads |-> <<>>, cover_downloads |-> <<>>]

\* Vec<Box<dyn Module>>::clone: box_clone of every module, in order.
Client_clone(mods) == [i \in 1..Len(mods) |-> mods[i]]

\* A clone that copies the download registries too.
clone_context_with_downloads(p) ==
    [live |-> TRUE, client |-> Client_clone(p.client),
     track_downloads |-> p.track_downloads, cover_downloads |-> p.cover_downloads]

\* clone_context.
clone_context(p) ==
    [live |-> TRUE, client |-> Client_clone(p.client),
     track_downloads |-> <<>>, cover_downloads |-> <<>>]

\* An add_module that asks "qobuz" for its token only.
ffi_add_module_token_only(ctx, module_name, params) ==
    IF module_name \in {"yandex", "qobuz"} /\ "token" \in params
    THEN [ctx |-> [ctx EXCEPT !.client = add_module(@, new_module(module_name))],
          response |-> Ok(0)]
    ELSE [ctx |-> ctx,
          response |-> Err(IF module_name \in {"yandex", "qobuz"}
                           THEN "token not provided" ELSE "module not available")]

\* add_module of ffi.rs: the context after the request and the response.
ffi_add_module(ctx, module_name, params) ==
    LET added == [ctx |-> [ctx EXCEPT !.client = add_module(@, new_module(module_name))],
                  response |-> Ok(0)]
        refused(message) == [ctx |-> ctx, response |-> Err(message)]
    IN  IF module_name = "yandex"
        THEN IF "token" \notin params THEN refused("token not provided") ELSE added
        ELSE IF module_name = "qobuz"
        THEN IF "token" \notin params THEN refused("token not provided")
             ELSE IF "app_id" \notin params THEN refused("app_id not provided")
             ELSE IF "app_secret" \notin params THEN refused("app_secret not provided")
             ELSE added
        ELSE refused("module not available")

\* download_track: the client's download, registered under a random id.
download_track(ctx, url, env, format, id) ==
    LET v == Client_download(ctx.client, url, env).result
    IN  IF v.ok
        THEN [ctx |-> [ctx EXCEPT !.track_downloads = insert(@, id, [format |-> format])],
              response |-> Ok(id)]
        ELSE [ctx |-> ctx, response |-> Err(v.error)]

\* download_cover: a plain GET, registered under a random id.
download_cover(ctx, answer, id) ==
    IF answer = "error" THEN [ctx |-> ctx, response |-> Err("download error")]
    ELSE IF answer # "image/jpeg"
    THEN [ctx |-> ctx, response |-> Err("unsupported content type")]
    ELSE [ctx |-> [ctx EXCEPT !.cover_downloads = insert(@, id, [format |-> [variant |-> "Jpg"]])],
          response |-> Ok(id)]

\* remux of ffi.rs: both downloads are taken out of the registries, the track
\* first; the remuxed track is registered under a random id.
ffi_remux(ctx, track_download_id, cover_download_id, env, id) ==
    IF track_download_id \notin DOMAIN ctx.track_downloads
    THEN [ctx |-> ctx, response |-> Err("not found")]
    ELSE
    LET track == ctx.track_downloads[track_download_id]
        ctx1 == [ctx EXCEPT !.track_downloads = remove(@, track_download_id)]
    IN
    IF cover_download_id \notin DOMAIN ctx1.cover_downloads
    THEN [ctx |-> ctx1, response |-> Err("not found")]
    ELSE
    LET ctx2 == [ctx1 EXCEPT !.cover_downloads = remove(@, cover_download_id)]
    IN
    IF env # "ok" THEN [ctx |-> ctx2, response |-> Err("RemuxError")]
    ELSE [ctx |-> [ctx2 EXCEPT !.track_downloads =
                       insert(@, id, [format |-> remuxed(track.format).format])],
          response |-> Ok(id)]

\* poll_download_track, poll_download_cover: the ErrorCode.
poll(ctx, field, id, item) ==
    LET registry == IF field = "track" THEN ctx.track_downloads ELSE ctx.cover_downloads
    IN  IF id \notin DOMAIN registry THEN "NotFound"
        ELSE IF item = "chunk" THEN "Success" ELSE "IteratorEnd"

InitFfi ==
    /\ modules = <<>>
    /\ stream = IdleStream
    /\ remuxSt = IdleRemux
    /\ last = NoCall
    /\ contexts = [NoContexts EXCEPT ![1] = create_context]

\* One request on context c: the context it leaves.
Request(c, r) ==
    /\ contexts' = [contexts EXCEPT ![c] = r.ctx]
    /\ UNCHANGED <<modules, last, stream, remuxSt>>

FfiAddModule(c, module_name, params) ==
    /\ contexts[c].live
    /\ Len(contexts[c].client) < MaxFfiModules
    /\ Request(c, ffi_add_module(contexts[c], module_name, params))

FfiDownloadTrack(c, url, env, format, id) ==
    /\ contexts[c].live
    /\ Request(c, download_track(contexts[c], url, env, format, id))

FfiDownloadCover(c, answer, id) ==
    /\ contexts[c].live
    /\ Request(c, download_cover(contexts[c], answer, id))

FfiRemux(c, track_download_id, cover_download_id, env, id) ==
    /\ contexts[c].live
    /\ Request(c, ffi_remux(contexts[c], track_download_id, cover_download_id, env, id))

\* clone_context(p) into a free slot c.
CloneContext(p, c) ==
    /\ contexts[p].live
    /\ ~contexts[c].live
    /\ contexts' = [contexts EXCEPT ![c] = clone_context(contexts[p])]
    /\ UNCHANGED <<modules, last, stream, remuxSt>>

\* free_context.
FreeContext(c) ==
    /\ contexts[c].live
    /\ contexts' = [contexts EXCEPT ![c] = NoContext]
    /\ UNCHANGED <<modules, last, stream, remuxSt>>

NextFfi ==
    \/ \E c \in ContextIds, n \in RequestedNames, params \in SUBSET ParamNames :
           FfiAddModule(c, n, params)
    \/ \E c \in ContextIds, url \in Urls, env \in Outcomes, format \in FfiAudioFormats,
          id \in DownloadIds :
           FfiDownloadTrack(c, url, env, format, id)
    \/ \E c \in ContextIds, answer \in CoverResponses, id \in CoverIds :
           FfiDownloadCover(c, answer, id)
    \/ \E c \in ContextIds, t \in DownloadIds, v \in DownloadIds, env \in Outcomes,
          id \in DownloadIds :
           FfiRemux(c, t, v, env, id)
    \/ \E p \in ContextIds, c \in ContextIds : CloneContext(p, c)
    \/ \E c \in ContextIds : FreeContext(c)

SpecFfi == InitFfi /\ [][NextFfi]_vars

(***************************************************************************)
(* Hifi: src/src/hifi.rs. try_send sends one request to the configured     *)
(* hosts in turn.                                                          *)
(***************************************************************************)

\* The most hosts a Hifi configuration lists.
MaxHosts == 3

\* What happens with the request for one host: build_request fails (the base
\* url does not parse), send fails, the response has another status than 200,
\* or it has status 200.
HostOutcomes == {"build_err", "send_err", "status_503", "status_200"}

\* Config(Vec<Host>), each host with what its request will do.
Configs == SeqsUpTo(HostOutcomes, MaxHosts)

RECURSIVE try_send_any_status_from(_, _)
\* A try_send that returns the first response received, whatever its status.
try_send_any_status_from(hosts, i) ==
    IF i > Len(hosts)
    THEN [result |-> [ok |-> FALSE, error |-> "ServiceError",
                      message |-> "cannot find usable server", by |-> 0],
          contacted |-> <<>>]
    ELSE IF hosts[i] = "build_err"
    THEN [result |-> [ok |-> FALSE, error |-> "UrlError", message |-> NONE, by |-> 0],
          contacted |-> <<>>]
    ELSE IF hosts[i] \in {"status_200", "status_503"}
    THEN [result |-> [ok |-> TRUE, error |-> NONE, message |-> NONE, by |-> i],
          contacted |-> <<i>>]
    ELSE LET rest == try_send_any_status_from(hosts, i + 1)
         IN  [result |-> rest.result, contacted |-> <<i>> \o rest.contacted]

try_send_any_status(hosts) == try_send_any_status_from(hosts, 1)

RECURSIVE try_send_from(_, _)
\* The for loop of try_send from host i on: the result, and the hosts a
\* request was sent to.
try_send_from(hosts, i) ==
    IF i > Len(hosts)
    THEN [result |-> [ok |-> FALSE, error |-> "ServiceError",
                      message |-> "cannot find usable server", by |-> 0],
          contacted |-> <<>>]
    ELSE IF hosts[i] = "build_err"
    THEN [result |-> [ok |-> FALSE, error |-> "UrlError", message |-> NONE, by |-> 0],
          contacted |-> <<>>]
    ELSE IF hosts[i] = "status_200"
    THEN [result |-> [ok |-> TRUE, error |-> NONE, message |-> NONE, by |-> i],
          contacted |-> <<i>>]
    ELSE LET rest == try_send_from(hosts, i + 1)
         IN  [result |-> rest.result, contacted |-> <<i>> \o rest.contacted]

\* Hifi::try_send.
try_send(hosts) == try_send_from(hosts, 1)

InitHifi ==
    /\ contexts = NoContexts
    /\ modules = <<>>
    /\ stream = IdleStream
    /\ remuxSt = IdleRemux
    /\ \E hosts \in Configs : last = [op |-> "try_send", arg |-> hosts]

TrySend ==
    /\ last.op = "try_send"
    /\ LET r == try_send(last.arg)
       IN  last' = [op |-> "try_sent", arg |-> last.arg,
                    result |-> r.result, contacted |-> r.contacted]
    /\ UNCHANGED <<modules, stream, remuxSt, contexts>>

NextHifi == TrySend

SpecHifi == InitHifi /\ [][NextHifi]_vars

(***************************************************************************)
(* Parsing a format from a MIME type or a file name: src/src/format.rs.    *)
(* A string is the sequence of its characters.                             *)
(***************************************************************************)

\* The characters of the string literals of format.rs.
Text ==
    "audio/flac" :> <<"a", "u", "d", "i", "o", "/", "f", "l", "a", "c">> @@
    "audio/x-flac" :> <<"a", "u", "d", "i", "o", "/", "x", "-", "f", "l", "a", "c">> @@
    "audio/mpeg" :> <<"a", "u", "d", "i", "o", "/", "m", "p", "e", "g">> @@
    "audio/mpg" :> <<"a", "u", "d", "i", "o", "/", "m", "p", "g">> @@
    "audio/mp4" :> <<"a", "u", "d", "i", "o", "/", "m", "p", "4">> @@
    "video/mp4" :> <<"v", "i", "d", "e", "o", "/", "m", "p", "4">> @@
    "audio/aac" :> <<"a", "u", "d", "i", "o", "/", "a", "a", "c">> @@
    "image/jpeg" :> <<"i", "m", "a", "g", "e", "/", "j", "p", "e", "g">> @@
    "image/png" :> <<"i", "m", "a", "g", "e", "/", "p", "n", "g">> @@
    ".flac" :> <<".", "f", "l", "a", "c">> @@
    ".mp3" :> <<".", "m", "p", "3">> @@
    ".m4a" :> <<".", "m", "4", "a">> @@
    ".mp4" :> <<".", "m", "p", "4">> @@
    ".jpg" :> <<".", "j", "p", "g">> @@
    ".png" :> <<".", "p", "n", "g">> @@
    "flac" :> <<"f", "l", "a", "c">> @@
    "mp3" :> <<"m", "p", "3">> @@
    "m4a" :> <<"m", "4", "a">> @@
    "jpg" :> <<"j", "p", "g">> @@
    "png" :> <<"p", "n", "g">> @@
    "." :> <<".">>

\* str::ends_with.
ends_with(value, suffix) ==
    /\ Len(value) >= Len(suffix)
    /\ SubSeq(value, Len(value) - Len(suffix) + 1, Len(value)) = suffix

UnsupportedFormatError == [ok |-> FALSE, error |-> "UnsupportedFormatError"]

\* Ok(AudioFormat::Flac), Ok(AudioFormat::Mp3(0)), Ok(CoverFormat::Png), ...
Parsed(format) == [ok |-> TRUE, format |-> format]

\* A parser that knows the MIME types only.
AudioFormat_try_from_mime(value) ==
    IF value \in {Text["audio/flac"], Text["audio/x-flac"]}
    THEN Parsed([variant |-> "Flac", bitrate |-> 0])
    ELSE IF value \in {Text["audio/mpeg"], Text["audio/mpg"]}
    THEN Parsed([variant |-> "Mp3", bitrate |-> 0])
    ELSE IF value \in {Text["audio/mp4"], Text["video/mp4"], Text["audio/aac"]}
    THEN Parsed([variant |-> "Aac", bitrate |-> 0])
    ELSE UnsupportedFormatError

\* TryFrom<&str> for AudioFormat.
AudioFormat_try_from(value) ==
    IF value \in {Text["audio/flac"], Text["audio/x-flac"]}
    THEN Parsed([variant |-> "Flac", bitrate |-> 0])
    ELSE IF value \in {Text["audio/mpeg"], Text["audio/mpg"]}
    THEN Parsed([variant |-> "Mp3", bitrate |-> 0])
    ELSE IF value \in {Text["audio/mp4"], Text["video/mp4"], Text["audio/aac"]}
    THEN Parsed([variant |-> "Aac", bitrate |-> 0])
    ELSE IF ends_with(value, Text[".flac"])
    THEN Parsed([variant |-> "Flac", bitrate |-> 0])
    ELSE IF ends_with(value, Text[".mp3"])
    THEN Parsed([variant |-> "Mp3", bitrate |-> 0])
    ELSE IF ends_with(value, Text[".m4a"]) \/ ends_with(value, Text[".mp4"])
    THEN Parsed([variant |-> "Aac", bitrate |-> 0])
    ELSE UnsupportedFormatError

\* TryFrom<&str> for CoverFormat.
CoverFormat_try_from(value) ==
    IF value = Text["image/jpeg"] THEN Parsed([variant |-> "Jpeg"])
    ELSE IF value = Text["image/png"] THEN Parsed([variant |-> "Png"])
    ELSE IF ends_with(value, Text[".jpg"]) THEN Parsed([variant |-> "Jpeg"])
    ELSE IF ends_with(value, Text[".png"]) THEN Parsed([variant |-> "Png"])
    ELSE UnsupportedFormatError

\* The strings parsed: a beginning followed by an ending.
Stems ==
    {<<>>,
     <<"a">>,
     <<"t", "r", "a", "c", "k", ".", "m", "p", "3">>,
     <<"c", "o", "v", "e", "r", ".", "p", "n", "g">>,
     <<"a", "u", "d", "i", "o", "/", "f", "l", "a", "c">>,
     <<"h", "t", "t", "p", "s", ":", "/", "/", "h", "/", "1">>}

Suffixes ==
    {<<>>,
     <<".", "f", "l", "a", "c">>,
     <<".", "m", "p", "3">>,
     <<".", "m", "4", "a">>,
     <<".", "m", "p", "4">>,
     <<".", "j", "p", "g">>,
     <<".", "p", "n", "g">>,
     <<".", "j", "p", "e", "g">>,
     <<".", "o", "g", "g">>,
     <<"f", "l", "a", "c">>,
     <<".", "f", "l", "a", "c", " ">>,
     <<".", "F", "L", "A", "C">>,
     <<"/", "m", "p", "4">>}

ParseInputs ==
    {Text[m] : m \in {"audio/flac", "audio/x-flac", "audio/mpeg", "audio/mpg", "audio/mp4",
                      "video/mp4", "audio/aac", "image/jpeg", "image/png"}}
    \cup {stem \o ending : stem \in Stems, ending \in Suffixes}

InitParse ==
    /\ contexts = NoContexts
    /\ modules = <<>>
    /\ stream = IdleStream
    /\ remuxSt = IdleRemux
    /\ \E target \in {"AudioFormat", "CoverFormat"}, value \in ParseInputs :
           last = [op |-> "try_from", target |-> target, arg |-> value]

\* AudioFormat::try_from(value) or CoverFormat::try_from(value).
Parse ==
    /\ last.op = "try_from"
    /\ last' = [op |-> "parsed", target |-> last.target, arg |-> last.arg,
                result |-> IF last.target = "AudioFormat"
                           THEN AudioFormat_try_from(last.arg)
                           ELSE CoverFormat_try_from(last.arg)]
    /\ UNCHANGED <<modules, stream, remuxSt, contexts>>

NextParse == Parse

SpecParse == InitParse /\ [][NextParse]_vars

(***************************************************************************)
(* Claims about the dispatcher, checked under SpecDispatch.                *)
(***************************************************************************)

Min(S) == CHOOSE x \in S : \A y \in S : x <= y

\* Indices of the registered modules that accept url / that carry a name.
Supporting(url) == {i \in 1..Len(modules) : url \in modules[i].supported}
Named(n) == {i \in 1..Len(modules) : modules[i].name = n}

\* C1: a download of a url some module supports calls exactly one module, the
\* earliest registered one that supports the url, and returns what that module
\* returned, a failure included; no later supporting module is called.
C1_DownloadFirstMatch ==
    (last.op = "download" /\ Supporting(last.arg) # {}) =>
        LET f == Min(Supporting(last.arg))
        IN  /\ last.calls = <<f>>
            /\ \E e \in Outcomes : last.result = module_download(modules, f, last.arg, e)

\* A download that failed in the first supporting module while a later module
\* supports the url too.
C1_Witness ==
    /\ last.op = "download"
    /\ Cardinality(Supporting(last.arg)) >= 2
    /\ Min(Supporting(last.arg)) > 1
    /\ ~last.result.ok
    /\ last.result.error = "ServiceError"
    /\ last.calls = <<Min(Supporting(last.arg))>>

\* C2: a download of a url no module supports, and a search for a name no
\* module has, fail with NoAvailableModules and call no module, whatever the
\* module list is (the empty list included).
C2_NoMatchFails ==
    /\ (last.op = "download" /\ Supporting(last.arg) = {}) =>
           (last.result = NoAvailableModules /\ last.calls = <<>>)
    /\ (last.op = "search" /\ Named(last.arg) = {}) =>
           (last.result = NoAvailableModules /\ last.calls = <<>>)

\* A download that matched none of two or more registered modules.
C2_Witness ==
    /\ last.op = "download"
    /\ Len(modules) >= 2
    /\ Supporting(last.arg) = {}
    /\ last.result.error = "NoAvailableModules"
    /\ last.calls = <<>>

\* C3: a search for a name some module has calls exactly one module, the
\* earliest registered one of that name, and returns what it returned; a later
\* module of the same name is never called.
C3_SearchFirstNamed ==
    (last.op = "search" /\ Named(last.arg) # {}) =>
        LET f == Min(Named(last.arg))
        IN  /\ last.calls = <<f>>
            /\ \E e \in Outcomes, q \in Queries :
                   last.result = module_search(modules, f, q, e)

\* A search answered by the earlier of two modules that share a name.
C3_Witness ==
    /\ last.op = "search"
    /\ Cardinality(Named(last.arg)) >= 2
    /\ last.result.by = Min(Named(last.arg))
    /\ last.calls = <<Min(Named(last.arg))>>
    /\ \E i \in Named(last.arg) : modules[i] # modules[Min(Named(last.arg))]

(***************************************************************************)
(* Claims about the streaming transport, checked under SpecStream and      *)
(* SpecStreamFair.                                                         *)
(***************************************************************************)

\* The chunks a source of n chunks yields, in order.
Expected(n) == [k \in 1..n |-> OkItem(k)]

IsPrefix(a, b) == Len(a) <= Len(b) /\ SubSeq(b, 1, Len(a)) = a

Live == stream.phase = "live"

\* C4: when the source yields its chunks and then ends, what the consumer has
\* received is always a prefix of the chunks in the order produced, end-of-data
\* is seen only after all of them, and a consumer that keeps its handle and
\* keeps polling eventually has received all of them and seen end-of-data.
C4_AllChunksDelivered ==
    /\ []((Live /\ stream.ending = "end") =>
            /\ IsPrefix(stream.received, Expected(stream.total))
            /\ stream.ended => stream.received = Expected(stream.total))
    /\ ((Live /\ stream.ending = "end") ~>
            (~stream.rx \/ (stream.received = Expected(stream.total) /\ stream.ended)))

\* A consumer that received every chunk of a source longer than the buffer,
\* and then end-of-data.
C4_Witness ==
    /\ Live /\ stream.ending = "end" /\ stream.rx
    /\ stream.total > ChannelCapacity
    /\ stream.received = Expected(stream.total)
    /\ stream.ended

\* C5: the buffer never holds more than 16 items; the producer's send
\* completes exactly when the receiver is gone or the buffer holds fewer than
\* 16 items (with 16 buffered it stays suspended until the consumer takes
\* one), and a poll completes exactly when an item is buffered or the producer
\* has ended (on an empty, open buffer it stays suspended).
C5_BoundedBuffer ==
    /\ Len(stream.buf) <= ChannelCapacity
    /\ (Live /\ stream.ppc = "send") =>
           ((ENABLED (TrackSend \/ CoverSend)) <=>
               (~stream.rx \/ Len(stream.buf) < ChannelCapacity))
    /\ (Live /\ stream.registered) =>
           ((ENABLED Poll) <=> (stream.buf # <<>> \/ stream.ppc = "done"))

\* A producer suspended in send with a chunk in hand and 16 chunks buffered.
C5_Witness ==
    /\ Live /\ stream.rx
    /\ Len(stream.buf) = ChannelCapacity
    /\ stream.ppc = "send" /\ stream.pending # <<>>
    /\ ~ENABLED (TrackSend \/ CoverSend)

\* C6: once a send has failed because the consumer dropped its handle, the
\* producer task has terminated and it has fetched nothing since, for the
\* track producer and for the cover producer.
C6_ProducerStopsAtFailedSend ==
    (Live /\ stream.sendFailed) =>
        (stream.ppc = "done" /\ ~stream.fetchedAfterFailedSend)

\* C7: when the source failed, a consumer that sees the sequence end has
\* received every chunk produced before the failure and then exactly one Err
\* item, the last item; it never sees a plain end-of-data instead. For the
\* track producer and for the cover producer.
C7_SourceFailureIsOneErr ==
    /\ (Live /\ stream.srcFailed /\ stream.ended) =>
           stream.received = Expected(stream.total) \o <<ErrItem>>
    /\ (Live /\ stream.srcFailed) =>
           \A i \in 1..Len(stream.received) :
               stream.received[i] = ErrItem => i = Len(stream.received)

Returned == remuxSt.phase = "returned"

\* Whether an input container has a stream of the medium.
HasStream(c, medium) == \E i \in 1..Len(c.streams) : c.streams[i].medium = medium

\* The library calls remux makes before it tests the selected streams.
BeforeStreamTest == {"open_audio", "open_cover", "open_output", "add_cover_stream"}

C10_MissingCoverIsSkipped ==
    (/\ Returned
     /\ HasStream(remuxSt.in.audio, "Audio")
     /\ ~HasStream(remuxSt.in.cover, "Video")
     /\ remuxSt.in.fault.site = "none") =>
        /\ remuxSt.result.ok
        /\ Len(remuxSt.out.streams) = 1
        /\ remuxSt.out.streams[1].medium = "Audio"

(***************************************************************************)
(* Claims about the tag dictionary, checked under SpecTags.                *)
(***************************************************************************)

\* The optional fields of a Metadata value that are Some.
Present(metadata) == {f \in OptionalFieldSet : metadata[f] # <<>>}

\* The keys of a tag dictionary.
Keys(dict) == {kv[1] : kv \in dict}

\* C11: the tag dictionary a remux commits to the output has title and artist
\* with the Metadata values, each of the twelve optional keys exactly when the
\* Metadata field is present, with its value, and nothing else; an absent
\* field is not written, not even as an empty string.
C11_TagsExactlyPresentFields ==
    (Returned /\ remuxSt.out.metadata # <<>>) =>
        LET metadata == remuxSt.in.metadata
            dict == remuxSt.out.metadata[1]
        IN  /\ Keys(dict) = {"title", "artist"} \cup Present(metadata)
            /\ Cardinality(dict) = 2 + Cardinality(Present(metadata))
            /\ \A kv \in dict : kv[2] = metadata[kv[1]][1]
            /\ \A f \in OptionalFieldSet \ Present(metadata) : <<f, "">> \notin dict

\* A successful remux of a Metadata value with seven optional fields present
\* and five absent: the dictionary has nine keys.
C11_Witness ==
    /\ Returned
    /\ remuxSt.result.ok
    /\ remuxSt.out.header
    /\ Cardinality(Present(remuxSt.in.metadata)) = 7
    /\ remuxSt.in.metadata["genre"] = <<>>
    /\ remuxSt.in.metadata["track"] # <<>>
    /\ Cardinality(remuxSt.out.metadata[1]) = 9

(***************************************************************************)
(* Claims about the streams and packets of the remux output, checked under *)
(* SpecRemux.                                                              *)
(***************************************************************************)

\* The indices (0-based) of the streams of a medium in an input container.
StreamsOf(c, medium) ==
    {i \in 0..(Len(c.streams) - 1) : c.streams[i + 1].medium = medium}

\* C12: a successful remux leaves an output of exactly two streams: the audio
\* stream at output index 0, without the attached-picture flag, and the cover
\* stream at output index 1, with it.
C12_AudioThenAttachedPicture ==
    (Returned /\ remuxSt.result.ok) =>
        LET streams == remuxSt.out.streams
        IN  /\ Len(streams) = 2
            /\ streams[1].medium = "Audio"
            /\ ~streams[1].attached_pic
            /\ streams[2].medium = "Video"
            /\ streams[2].attached_pic

\* A successful remux of an audio input whose first stream is a picture and
\* a cover input whose first stream is not one.
C12_Witness ==
    /\ Returned
    /\ remuxSt.result.ok
    /\ remuxSt.out.trailer
    /\ remuxSt.in.audio.streams[1].medium = "Video"
    /\ remuxSt.in.cover.streams[1].medium = "Subtitle"
    /\ Len(remuxSt.out.streams) = 2

\* C13: the output never has more than one audio stream and one cover
\* stream, and after a successful remux its audio stream has the parameters
\* of the lowest-index audio stream of the audio input and its cover stream
\* those of the lowest-index video stream of the cover input; no other stream
\* of either input is in the output.
C13_LowestIndexStreams ==
    Returned =>
        LET streams == remuxSt.out.streams
            flagged(b) == {k \in 1..Len(streams) : streams[k].attached_pic = b}
        IN  /\ Cardinality(flagged(FALSE)) <= 1
            /\ Cardinality(flagged(TRUE)) <= 1
            /\ remuxSt.result.ok =>
                   /\ Len(streams) = 2
                   /\ streams[1].parameters_of = Min(StreamsOf(remuxSt.in.audio, "Audio"))
                   /\ streams[2].parameters_of = Min(StreamsOf(remuxSt.in.cover, "Video"))

\* A successful remux of an audio input with two audio streams and a cover
\* input with two video streams: the output has the stream of index 0 of each.
C13_Witness ==
    /\ Returned
    /\ remuxSt.result.ok
    /\ Cardinality(StreamsOf(remuxSt.in.audio, "Audio")) >= 2
    /\ Cardinality(StreamsOf(remuxSt.in.cover, "Video")) >= 2
    /\ remuxSt.out.streams[1].parameters_of = 0
    /\ remuxSt.out.streams[2].parameters_of = 0

\* The packets of an input that belong to the stream of index `selected`, in
\* source order.
SelectedPackets(c, selected) == SelectSeq(c.packets, LAMBDA p : p.stream = selected)

\* What the output receives for them: output stream index, position -1.
Written(c, selected, out_index, input) ==
    LET chosen == SelectedPackets(c, selected)
    IN  [k \in 1..Len(chosen) |->
            [stream |-> out_index, position |-> -1, input |-> input, seq |-> chosen[k].seq]]

\* C14: the packets written to the output are, for output stream 0, the
\* packets of the selected audio stream in source order, followed, for output
\* stream 1, by the packets of the selected cover stream in source order: all
\* of them after a successful remux, a prefix of them after a failed one.
\* Packets of other streams are never written, every written packet has
\* position -1, and no cover packet is written before an audio packet.
C14_PacketsInSourceOrder ==
    (Returned /\ remuxSt.out.header) =>
        LET expected ==
                Written(remuxSt.in.audio, Min(StreamsOf(remuxSt.in.audio, "Audio")), 0, "audio")
                \o Written(remuxSt.in.cover, Min(StreamsOf(remuxSt.in.cover, "Video")), 1, "cover")
            packets == remuxSt.out.packets
        IN  /\ IsPrefix(packets, expected)
            /\ remuxSt.result.ok => packets = expected
            /\ \A k \in 1..Len(packets) : packets[k].position = -1
            /\ \A j, k \in 1..Len(packets) :
                   (packets[j].stream = 0 /\ packets[k].stream = 1) => j < k

\* A successful remux of inputs that both have a second stream with packets
\* of its own: two audio packets, then two cover packets, are written.
C14_Witness ==
    /\ Returned
    /\ remuxSt.result.ok
    /\ Len(remuxSt.in.audio.streams) = 2
    /\ Len(remuxSt.in.cover.streams) = 2
    /\ Len(remuxSt.in.audio.packets) = 4
    /\ Len(remuxSt.in.cover.packets) = 4
    /\ Len(remuxSt.out.packets) = 4
    /\ remuxSt.out.packets[2].stream = 0
    /\ remuxSt.out.packets[3].stream = 1

(***************************************************************************)
(* Claims about the files remux leaves, checked under SpecRemux.           *)
(***************************************************************************)

\* C15: when remux returns, on whatever path (success, a missing stream, a
\* library error), the working directory of the call has been destroyed: no
\* staged input file of the call remains.
C15_WorkspaceDestroyed ==
    Returned => remuxSt.workdir \cap StagedInputs = {}

\* C16: when remux returns an error, the error is a RemuxError and there is
\* no output file, empty or partial, at the output path.
C16_NoOutputFileOnError ==
    (Returned /\ ~remuxSt.result.ok) =>
        /\ remuxSt.result.error = "RemuxError"
        /\ "output" \notin remuxSt.workdir

(***************************************************************************)
(* Claims about the format a remux returns, checked under SpecRemux.       *)
(***************************************************************************)

\* C17: a successful remux returns the audio format it was given, variant and
\* bitrate, and its output file has the extension of that format: flac for
\* Flac, mp3 for Mp3, m4a for Aac.
C17_FormatUnchanged ==
    (Returned /\ remuxSt.result.ok) =>
        /\ remuxSt.result.format = remuxSt.in.format
        /\ remuxSt.result.format.variant = "Flac" => remuxSt.result.extension = "flac"
        /\ remuxSt.result.format.variant = "Mp3" => remuxSt.result.extension = "mp3"
        /\ remuxSt.result.format.variant = "Aac" => remuxSt.result.extension = "m4a"

\* A successful remux of an Aac input of bitrate 256 into an m4a file.
C17_Witness ==
    /\ Returned
    /\ remuxSt.result.ok
    /\ remuxSt.in.format = [variant |-> "Aac", bitrate |-> 256]
    /\ remuxSt.result.format.bitrate = 256
    /\ remuxSt.result.extension = "m4a"
    /\ "output" \in remuxSt.workdir

(***************************************************************************)
(* Claims about the format tables, checked under SpecFormat.               *)
(***************************************************************************)

\* The extension and MIME type of each variant.
FormatTable ==
    [Flac |-> <<"flac", "audio/flac">>, Mp3 |-> <<"mp3", "audio/mpeg">>,
     Aac |-> <<"m4a", "audio/mp4">>, Png |-> <<"png", "image/png">>,
     Jpg |-> <<"jpg", "image/jpeg">>]

\* C18: the extension and the MIME type of a format depend on its variant
\* only, not on its bitrate: Flac is (flac, audio/flac), Mp3 (mp3,
\* audio/mpeg), Aac (m4a, audio/mp4), Png (png, image/png), Jpeg (jpg,
\* image/jpeg); the definitions of lib.rs and of format.rs give the same
\* answer for every format.
C18_FormatTables ==
    last.op = "described" =>
        /\ last.lib = FormatTable[last.arg.variant]
        /\ last.trait = last.lib

\* The two answers for Mp3 at the largest bitrate.
C18_Witness ==
    /\ last.op = "described"
    /\ last.arg = [variant |-> "Mp3", bitrate |-> MaxBitrate]
    /\ last.lib = <<"mp3", "audio/mpeg">>
    /\ last.trait = <<"mp3", "audio/mpeg">>

(***************************************************************************)
(* Claims about the FFI contexts, checked under SpecFfi.                   *)
(***************************************************************************)

\* C19: the context clone_context makes has the module list of the original,
\* in the same order, and empty track and cover registries, however many
\* downloads the original holds; the clone leaves the original as it was; and
\* no request on one context (AddModule, a download, a remux, a clone, a
\* free) changes another context.
C19_CloneIsIndependent ==
    [][/\ \A c \in ContextIds :
              (~contexts[c].live /\ contexts'[c].live) =>
                  \E p \in ContextIds \ {c} :
                      /\ contexts[p].live
                      /\ contexts'[c].client = contexts[p].client
                      /\ contexts'[c].track_downloads = <<>>
                      /\ contexts'[c].cover_downloads = <<>>
                      /\ contexts'[p] = contexts[p]
       /\ \A c, d \in ContextIds :
              (c # d /\ contexts[c].live /\ contexts'[c].live
                  /\ contexts'[c] # contexts[c]) => contexts'[d] = contexts[d]
      ]_vars

\* An original with two different modules, a track download and a cover
\* download, and its clone: the same two modules in the same order, and no
\* download.
C19_Witness ==
    \E p, c \in ContextIds :
        /\ contexts[p].live /\ contexts[c].live
        /\ Len(contexts[p].client) = 2
        /\ contexts[p].client[1] # contexts[p].client[2]
        /\ contexts[p].track_downloads # <<>>
        /\ contexts[p].cover_downloads # <<>>
        /\ contexts[c].client = contexts[p].client
        /\ contexts[c].track_downloads = <<>>
        /\ contexts[c].cover_downloads = <<>>

\* C20: a Remux request answered with "not found" leaves the track registry
\* and the cover registry of its context as they were; when the track id was
\* registered and the cover id was not, a poll of the track id after the
\* request still finds the download.
C20_NotFoundChangesNothing ==
    [][\A c \in ContextIds, t \in DownloadIds, v \in DownloadIds, env \in Outcomes,
         id \in DownloadIds :
           (/\ FfiRemux(c, t, v, env, id)
            /\ ffi_remux(contexts[c], t, v, env, id).response = Err("not found")) =>
               /\ contexts'[c].track_downloads = contexts[c].track_downloads
               /\ contexts'[c].cover_downloads = contexts[c].cover_downloads
               /\ t \in DOMAIN contexts[c].track_downloads =>
                      \A item \in PollItems : poll(contexts'[c], "track", t, item) # "NotFound"
      ]_vars

\* The ids registered in the track registry and in the cover registry of a
\* context.
TrackIds(ctx) == DOMAIN ctx.track_downloads
RegisteredCoverIds(ctx) == DOMAIN ctx.cover_downloads

\* C21: after a Remux request that found both ids, a poll of the track id and
\* a poll of the cover id return NotFound, whether the remux succeeded or
\* failed; after a success the track registry holds exactly one id it did not
\* hold before, the id returned, with the audio format of the input track;
\* after a failure it holds no new id.
C21_RemuxConsumesBothIds ==
    [][\A c \in ContextIds, t \in DownloadIds, v \in DownloadIds, env \in Outcomes,
         id \in DownloadIds :
           (/\ FfiRemux(c, t, v, env, id)
            /\ t \in TrackIds(contexts[c])
            /\ v \in RegisteredCoverIds(contexts[c])) =>
               LET response == ffi_remux(contexts[c], t, v, env, id).response
                   kept == TrackIds(contexts[c]) \ {t}
               IN  /\ \A item \in PollItems :
                          /\ poll(contexts'[c], "track", t, item) = "NotFound"
                          /\ poll(contexts'[c], "cover", v, item) = "NotFound"
                   /\ response.status = "Ok" =>
                          /\ TrackIds(contexts'[c]) \ kept = {response.id}
                          /\ kept \subseteq TrackIds(contexts'[c])
                          /\ Cardinality(TrackIds(contexts'[c])) = Cardinality(kept) + 1
                          /\ contexts'[c].track_downloads[response.id].format
                                 = contexts[c].track_downloads[t].format
                   /\ response.status = "Err" => TrackIds(contexts'[c]) = kept
      ]_vars

\* The same statement for the requests whose new id is not the id of a
\* registered track download (the consumed one included).
C21_HoldsForFreshIds ==
    [][\A c \in ContextIds, t \in DownloadIds, v \in DownloadIds, env \in Outcomes,
         id \in DownloadIds :
           (/\ FfiRemux(c, t, v, env, id)
            /\ t \in TrackIds(contexts[c])
            /\ v \in RegisteredCoverIds(contexts[c])
            /\ id \notin TrackIds(contexts[c])) =>
               LET response == ffi_remux(contexts[c], t, v, env, id).response
                   kept == TrackIds(contexts[c]) \ {t}
               IN  /\ \A item \in PollItems :
                          /\ poll(contexts'[c], "track", t, item) = "NotFound"
                          /\ poll(contexts'[c], "cover", v, item) = "NotFound"
                   /\ response.status = "Ok" =>
                          /\ TrackIds(contexts'[c]) = kept \cup {response.id}
                          /\ response.id \notin kept
                   /\ response.status = "Err" => TrackIds(contexts'[c]) = kept
      ]_vars

\* The parameters each module name needs.
Required(module_name) ==
    IF module_name = "yandex" THEN {"token"}
    ELSE IF module_name = "qobuz" THEN {"token", "app_id", "app_secret"}
    ELSE {}

\* C22: an AddModule request for "yandex" with a token, or for "qobuz" with
\* token, app_id and app_secret, answers Ok and appends exactly one module,
\* of that name, at the end of the module list of its context; any other
\* AddModule request answers Err and leaves the list as it was. No step of
\* any kind removes or reorders the modules of a context: the list before is
\* a prefix of the list after.
C22_AddModuleAppendsOrRefuses ==
    [][/\ \A c \in ContextIds, n \in RequestedNames, params \in SUBSET ParamNames :
              FfiAddModule(c, n, params) =>
                  LET response == ffi_add_module(contexts[c], n, params).response
                      before == contexts[c].client
                      after == contexts'[c].client
                  IN  IF n \in {"yandex", "qobuz"} /\ Required(n) \subseteq params
                      THEN /\ response.status = "Ok"
                           /\ Len(after) = Len(before) + 1
                           /\ SubSeq(after, 1, Len(before)) = before
                           /\ after[Len(after)].name = n
                      ELSE /\ response.status = "Err"
                           /\ after = before
       /\ \A c \in ContextIds :
              (contexts[c].live /\ contexts'[c].live) =>
                  IsPrefix(contexts[c].client, contexts'[c].client)
      ]_vars

\* A context whose client was given "qobuz" and then "yandex", and which has
\* since registered a track download.
C22_Witness ==
    \E c \in ContextIds :
        /\ contexts[c].live
        /\ Len(contexts[c].client) = 2
        /\ contexts[c].client[1].name = "qobuz"
        /\ contexts[c].client[2].name = "yandex"
        /\ contexts[c].track_downloads # <<>>

(***************************************************************************)
(* Claims about Hifi, checked under SpecHifi.                              *)
(***************************************************************************)

\* The hosts (by place in the configuration) whose request has the outcome.
HostsWith(hosts, outcomes) == {i \in 1..Len(hosts) : hosts[i] \in outcomes}

\* The places 1..n in order.
UpTo(n) == [i \in 1..n |-> i]

CannotFindUsableServer ==
    [ok |-> FALSE, error |-> "ServiceError", message |-> "cannot find usable server",
     by |-> 0]

\* C23 as stated: try_send returns the response of the first host, in
\* configuration order, whose request is sent and answered with status 200,
\* having contacted the hosts before it and none after it; when no host
\* answers 200 (or there is no host) it has contacted every host and fails
\* with ServiceError "cannot find usable server".
C23_FirstUsableHost ==
    last.op = "try_sent" =>
        LET usable == HostsWith(last.arg, {"status_200"})
        IN  IF usable # {}
            THEN /\ last.result.ok
                 /\ last.result.by = Min(usable)
                 /\ last.contacted = UpTo(Min(usable))
            ELSE /\ last.result = CannotFindUsableServer
                 /\ last.contacted = UpTo(Len(last.arg))

\* C23 amended: the hosts are tried in configuration order up to the first
\* host that either answers 200 or whose request cannot be built. If that
\* host answers 200, its response is returned; if its request cannot be
\* built, try_send fails with that UrlError and sends nothing to it. Hosts
\* before it were all sent a request, hosts after it none. With no such host,
\* every host was sent a request and the result is ServiceError "cannot find
\* usable server".
C23_FirstUsableOrUnbuildableHost ==
    last.op = "try_sent" =>
        LET ending == HostsWith(last.arg, {"status_200", "build_err"})
        IN  IF ending = {}
            THEN /\ last.result = CannotFindUsableServer
                 /\ last.contacted = UpTo(Len(last.arg))
            ELSE IF last.arg[Min(ending)] = "status_200"
            THEN /\ last.result.ok
                 /\ last.result.by = Min(ending)
                 /\ last.contacted = UpTo(Min(ending))
            ELSE /\ ~last.result.ok
                 /\ last.result.error = "UrlError"
                 /\ last.contacted = UpTo(Min(ending) - 1)

\* Three hosts: the first cannot be reached and is skipped, the request for
\* the second cannot be built, and try_send fails with UrlError without
\* trying the third, which would answer 200.
C23_Witness ==
    /\ last.op = "try_sent"
    /\ last.arg = <<"send_err", "build_err", "status_200">>
    /\ ~last.result.ok
    /\ last.result.error = "UrlError"
    /\ last.contacted = <<1>>

(***************************************************************************)
(* Claims about format parsing, checked under SpecParse.                   *)
(***************************************************************************)

\* The variant each exact MIME string stands for.
AudioMimes ==
    [Flac |-> {"audio/flac", "audio/x-flac"}, Mp3 |-> {"audio/mpeg", "audio/mpg"},
     Aac |-> {"audio/mp4", "video/mp4", "audio/aac"}]

CoverMimes == [Jpeg |-> {"image/jpeg"}, Png |-> {"image/png"}]

\* The file name endings each parser knows.
AudioEndings == {".flac", ".mp3", ".m4a", ".mp4"}
CoverEndings == {".jpg", ".png"}

\* "." followed by the extension of a format.
DotExtension(format) == Text["."] \o Text[Format_extension(format)]

\* C24: AudioFormat::try_from of the MIME type of an audio format, and of
\* any string that ends in "." and its extension, is Ok with the variant of
\* that format and bitrate 0, and likewise CoverFormat::try_from for a cover
\* format; a string that is exactly a known MIME type parses as that MIME
\* type says; a string that is no known MIME type and has no known ending
\* yields Err(UnsupportedFormatError).
C24_ParsingRoundTrips ==
    last.op = "parsed" =>
        LET value == last.arg
            result == last.result
        IN  /\ last.target = "AudioFormat" =>
                   /\ \A f \in AllAudioFormats :
                          (\/ value = Text[Format_mime_type(f)]
                           \/ ends_with(value, DotExtension(f))) =>
                              result = Parsed([variant |-> f.variant, bitrate |-> 0])
                   /\ \A v \in DOMAIN AudioMimes : \A m \in AudioMimes[v] :
                          value = Text[m] => result = Parsed([variant |-> v, bitrate |-> 0])
                   /\ (/\ \A v \in DOMAIN AudioMimes : \A m \in AudioMimes[v] : value # Text[m]
                       /\ \A e \in AudioEndings : ~ends_with(value, Text[e])) =>
                          result = UnsupportedFormatError
            /\ last.target = "CoverFormat" =>
                   /\ \A f \in [variant : {"Png", "Jpeg"}] :
                          (\/ value = Text[Format_mime_type(f)]
                           \/ ends_with(value, DotExtension(f))) =>
                              result = Parsed(f)
                   /\ \A v \in DOMAIN CoverMimes : \A m \in CoverMimes[v] :
                          value = Text[m] => result = Parsed([variant |-> v])
                   /\ (/\ \A v \in DOMAIN CoverMimes : \A m \in CoverMimes[v] : value # Text[m]
                       /\ \A e \in CoverEndings : ~ends_with(value, Text[e])) =>
                          result = UnsupportedFormatError

\* "track.mp3.m4a" parsed as an audio format: Aac with bitrate 0, because of
\* its ending.
C24_Witness ==
    /\ last.op = "parsed"
    /\ last.target = "AudioFormat"
    /\ last.arg = <<"t", "r", "a", "c", "k", ".", "m", "p", "3", ".", "m", "4", "a">>
    /\ ends_with(last.arg, DotExtension([variant |-> "Aac", bitrate |-> 256]))
    /\ last.result = Parsed([variant |-> "Aac", bitrate |-> 0])

(***************************************************************************)
(* Track URLs: how search builds them (yandex.rs 236-250, qobuz.rs         *)
(* 199-213) and how the download path takes them apart (yandex.rs 143-151, *)
(* qobuz.rs 71-76).  A string is the sequence of its characters.  A u64 is *)
(* the sequence of its decimal digits, most significant first and without  *)
(* leading zeros, so that the whole range up to 2^64 - 1 is there.         *)
(***************************************************************************)

DigitChars == <<"0", "1", "2", "3", "4", "5", "6", "7", "8", "9">>

\* u64::MAX, 18446744073709551615.
U64Max == <<1, 8, 4, 4, 6, 7, 4, 4, 0, 7, 3, 7, 0, 9, 5, 5, 1, 6, 1, 5>>

\* u64's Display: one character for each digit.
to_string(id) == [i \in 1..Len(id) |-> DigitChars[id[i] + 1]]

RECURSIVE strip_zeros(_)
strip_zeros(digits) ==
    IF Len(digits) > 1 /\ digits[1] = 0 THEN strip_zeros(Tail(digits)) ELSE digits

\* a > b for two digit sequences without leading zeros.
greater(a, b) ==
    \/ Len(a) > Len(b)
    \/ /\ Len(a) = Len(b)
       /\ \E i \in 1..Len(a) :
              /\ a[i] > b[i]
              /\ \A j \in 1..(i - 1) : a[j] = b[j]

\* str::parse::<u64>: an optional "+", then one digit or more, the value not
\* above u64::MAX.
parse_u64(s) ==
    LET digits == IF s # <<>> /\ s[1] = "+" THEN Tail(s) ELSE s
        digit_of(c) == CHOOSE d \in 0..9 : DigitChars[d + 1] = c
        none == [ok |-> FALSE, value |-> <<>>]
    IN  IF digits = <<>> \/ \E i \in 1..Len(digits) : \A d \in 0..9 : DigitChars[d + 1] # digits[i]
        THEN none
        ELSE LET value == strip_zeros([i \in 1..Len(digits) |-> digit_of(digits[i])])
             IN  IF greater(value, U64Max) THEN none ELSE [ok |-> TRUE, value |-> value]

\* The place of the first character of s that is in cs, Len(s) + 1 when
\* there is none.
find(s, cs) ==
    IF \E i \in 1..Len(s) : s[i] \in cs
    THEN CHOOSE i \in 1..Len(s) : s[i] \in cs /\ \A j \in 1..(i - 1) : s[j] \notin cs
    ELSE Len(s) + 1

RECURSIVE split(_, _)
split(s, c) ==
    LET i == find(s, {c})
    IN  IF i > Len(s) THEN <<s>>
        ELSE <<SubSeq(s, 1, i - 1)>> \o split(SubSeq(s, i + 1, Len(s)), c)

\* str::contains.
contains(s, pattern) ==
    \E i \in 1..(Len(s) - Len(pattern) + 1) : SubSeq(s, i, i + Len(pattern) - 1) = pattern

RECURSIVE skip_slashes(_)
skip_slashes(s) == IF s # <<>> /\ s[1] = "/" THEN skip_slashes(Tail(s)) ELSE s

Https == <<"h", "t", "t", "p", "s">>
\* Url::parse, for lower-case schemes and hosts that are plain names: no
\* scheme is an error; after http: and https: the slashes are skipped, a
\* host must follow and an empty path is "/"; after another scheme "//"
\* starts a host, "/" a path, and anything else is a URL that cannot be a
\* base and has no path segments.
Url_parse(s) ==
    LET SpecialSchemes == {Https, <<"h", "t", "t", "p">>}
        SchemeChars ==
            {"a", "b", "c", "d", "e", "f", "g", "h", "i", "j", "k", "l", "m", "n", "o", "p",
             "q", "r", "s", "t", "u", "v", "w", "x", "y", "z"}
        Url_ParseError == [ok |-> FALSE, cannot_be_a_base |-> FALSE, path |-> <<>>]
        \* The path ends at the query or the fragment.
        path_of(t) == SubSeq(t, 1, find(t, {"?", "#"}) - 1)
        colon == find(s, {":"})
        scheme == SubSeq(s, 1, colon - 1)
        rest == SubSeq(s, colon + 1, Len(s))
        authority(after) ==
            LET host_end == find(after, {"/", "?", "#"})
                path == path_of(SubSeq(after, host_end, Len(after)))
            IN  [host |-> SubSeq(after, 1, host_end - 1),
                 path |-> IF path = <<>> THEN <<"/">> ELSE path]
    IN  IF colon > Len(s) \/ scheme = <<>> \/ \E i \in 1..Len(scheme) : scheme[i] \notin SchemeChars
        THEN Url_ParseError
        ELSE IF scheme \in SpecialSchemes
        THEN LET a == authority(skip_slashes(rest))
             IN  IF a.host = <<>> THEN Url_ParseError
                 ELSE [ok |-> TRUE, cannot_be_a_base |-> FALSE, path |-> a.path]
        ELSE IF Len(rest) >= 2 /\ rest[1] = "/" /\ rest[2] = "/"
        THEN [ok |-> TRUE, cannot_be_a_base |-> FALSE,
              path |-> authority(SubSeq(rest, 3, Len(rest))).path]
        ELSE IF rest # <<>> /\ rest[1] = "/"
        THEN [ok |-> TRUE, cannot_be_a_base |-> FALSE, path |-> path_of(rest)]
        ELSE [ok |-> TRUE, cannot_be_a_base |-> TRUE, path |-> path_of(rest)]

\* Url::path_segments: None for a URL that cannot be a base, else the path
\* after its first "/" split at "/".
path_segments(parsed) ==
    IF parsed.cannot_be_a_base THEN [some |-> FALSE, segments |-> <<>>]
    ELSE [some |-> TRUE, segments |-> split(Tail(parsed.path), "/")]

NoSegment == [some |-> FALSE, segment |-> <<>>]

\* Iterator::nth counted as the iterator counts, from 1: the first element
\* is the one nth(0) returns.
nth_from_one(segments, n) ==
    IF n >= 1 /\ n <= Len(segments) THEN [some |-> TRUE, segment |-> segments[n]] ELSE NoSegment

\* Iterator::nth on a fresh iterator: element n counted from 0.
nth(segments, n) ==
    IF n + 1 <= Len(segments) THEN [some |-> TRUE, segment |-> segments[n + 1]] ELSE NoSegment

YandexHost == <<"m", "u", "s", "i", "c", ".", "y", "a", "n", "d", "e", "x", ".", "r", "u">>
QobuzHost == <<"o", "p", "e", "n", ".", "q", "o", "b", "u", "z", ".", "c", "o", "m">>
Slashes == <<":", "/", "/">>
AlbumPath == <<"/", "a", "l", "b", "u", "m", "/">>
TrackPath == <<"/", "t", "r", "a", "c", "k", "/">>

\* Yandex::url_supported.
Yandex_url_supported(s) == contains(s, YandexHost)

\* The url that Into<crate::Track> for Track gives a track of the Yandex
\* answer; albums[0] of a track without albums panics.
Yandex_Track_into(track) ==
    IF track.albums = <<>> THEN [panic |-> TRUE, id |-> <<>>, url |-> <<>>]
    ELSE [panic |-> FALSE,
          id |-> to_string(track.id),
          url |-> Https \o Slashes \o YandexHost \o AlbumPath \o to_string(track.albums[1])
                      \o TrackPath \o to_string(track.id)]

\* The url that From<Track> for crate::Track gives a track of the Qobuz
\* answer.
Qobuz_Track_from(track) ==
    [panic |-> FALSE,
     id |-> to_string(track.id),
     url |-> Https \o Slashes \o QobuzHost \o TrackPath \o to_string(track.id)]

\* What the download path made of a url: the error it returned before any
\* request, or the track id its request to the service carries.
Refused(error) == [error |-> error, requested |-> FALSE, track_id |-> <<>>]
Requested(track_id) == [error |-> "none", requested |-> TRUE, track_id |-> track_id]

\* Yandex::download up to its request: the url is parsed, its path segment
\* 3 is parsed as a u64, and get-file-info is asked for that trackId.
Yandex_download(s) ==
    LET parsed == Url_parse(s)
        it == path_segments(parsed)
        segment == nth(it.segments, 3)
        track_id == parse_u64(segment.segment)
    IN  IF ~parsed.ok THEN Refused("ParseError")
        ELSE IF ~it.some THEN Refused("InvalidPathError")
        ELSE IF ~segment.some \/ ~track_id.ok THEN Refused("InvalidPathError")
        ELSE Requested(to_string(track_id.value))

\* Qobuz::get_stream up to its request: the url is parsed and its path
\* segment 1 is the track_id of track/getFileUrl, as it stands.
Qobuz_get_stream(s) ==
    LET parsed == Url_parse(s)
        it == path_segments(parsed)
        segment == nth(it.segments, 1)
    IN  IF ~parsed.ok THEN Refused("ParseError")
        ELSE IF ~it.some \/ ~segment.some THEN Refused("InvalidUrlError")
        ELSE Requested(segment.segment)

\* The u64 values tried as ids: 0, 7, 42, 1000 and u64::MAX.
Ids == {<<0>>, <<7>>, <<4, 2>>, <<1, 0, 0, 0>>, U64Max}

\* The album lists of a Yandex track: none, one or two albums.
AlbumLists == {<<>>} \cup {<<a>> : a \in {<<3>>, U64Max}} \cup {<<<<3>>, <<8>>>>}

YandexTracks == [albums : AlbumLists, id : Ids]

\* What follows the host in the urls a caller writes by hand.
WrittenPaths ==
    {<<>>,
     <<"/">>,
     AlbumPath \o <<"1">>,
     AlbumPath \o <<"1">> \o TrackPath,
     AlbumPath \o <<"1">> \o TrackPath \o <<"a", "b", "c">>,
     AlbumPath \o <<"1">> \o TrackPath \o <<"-", "1">>,
     AlbumPath \o <<"1">> \o TrackPath \o <<"+">>,
     AlbumPath \o <<"1">> \o TrackPath \o <<"+", "5">>,
     AlbumPath \o <<"1">> \o TrackPath \o <<"0", "0", "7">>,
     AlbumPath \o <<"1">> \o TrackPath \o <<"7", "a">>,
     AlbumPath \o <<"1">> \o TrackPath \o <<"1", "8", "4", "4", "6", "7", "4", "4", "0", "7",
                                           "3", "7", "0", "9", "5", "5", "1", "6", "1", "6">>,
     AlbumPath \o <<"1">> \o TrackPath \o <<"2", "?", "u", "=", "1">>,
     AlbumPath \o <<"1">> \o TrackPath \o <<"2", "/", "x">>,
     AlbumPath \o <<"1", "?", "t", "=">> \o TrackPath \o <<"2">>,
     TrackPath \o <<"2">>,
     TrackPath \o <<"2", "#", "t">>,
     <<"/", "t", "r", "a", "c", "k">>}

\* The urls a caller writes by hand: the paths above on the host of each
\* service, on another scheme, and without a scheme.
WrittenUrls ==
    {Https \o Slashes \o h \o p : h \in {YandexHost, QobuzHost}, p \in WrittenPaths}
        \cup {<<"m", "a", "i", "l", "t", "o", ":">> \o YandexHost,
              <<"f", "t", "p", ":", "/">> \o YandexHost \o AlbumPath \o <<"1">> \o TrackPath \o <<"2">>,
              YandexHost \o AlbumPath \o <<"1">> \o TrackPath \o <<"2">>,
              QobuzHost \o TrackPath \o <<"2">>,
              <<>>}

InitUrl ==
    /\ modules = <<>>
    /\ stream = IdleStream
    /\ remuxSt = IdleRemux
    /\ contexts = NoContexts
    /\ \/ \E t \in YandexTracks :
              last = [op |-> "found", service |-> "yandex", track |-> t, built |-> FALSE,
                      id |-> <<>>, url |-> <<>>, supported |-> FALSE, result |-> Refused("none")]
       \/ \E i \in Ids :
              last = [op |-> "found", service |-> "qobuz", track |-> [albums |-> <<>>, id |-> i],
                      built |-> FALSE, id |-> <<>>, url |-> <<>>, supported |-> FALSE,
                      result |-> Refused("none")]
       \/ \E s \in {"yandex", "qobuz"}, u \in WrittenUrls :
              last = [op |-> "track", service |-> s, track |-> [albums |-> <<>>, id |-> <<>>], built |-> FALSE,
                      id |-> <<>>, url |-> u, supported |-> FALSE, result |-> Refused("none")]

\* Yandex search turns a track of the answer into a crate::Track.
YandexInto ==
    /\ last.op = "found"
    /\ last.service = "yandex"
    /\ LET made == Yandex_Track_into(last.track)
       IN  last' = [last EXCEPT !.op = IF made.panic THEN "panic" ELSE "track",
                                !.built = ~made.panic,
                                !.id = made.id,
                                !.url = made.url]
    /\ UNCHANGED <<modules, stream, remuxSt, contexts>>

\* Qobuz search turns a track of the answer into a crate::Track.
QobuzFrom ==
    /\ last.op = "found"
    /\ last.service = "qobuz"
    /\ LET made == Qobuz_Track_from(last.track)
       IN  last' = [last EXCEPT !.op = "track", !.built = TRUE, !.id = made.id, !.url = made.url]
    /\ UNCHANGED <<modules, stream, remuxSt, contexts>>

\* The url of a track is asked of Yandex and then downloaded from it.
YandexDownload ==
    /\ last.op = "track"
    /\ last.service = "yandex"
    /\ last' = [last EXCEPT !.op = "download",
                            !.supported = Yandex_url_supported(last.url),
                            !.result = Yandex_download(last.url)]
    /\ UNCHANGED <<modules, stream, remuxSt, contexts>>

\* The url of a track is given to Qobuz::get_stream.
QobuzGetStream ==
    /\ last.op = "track"
    /\ last.service = "qobuz"
    /\ last' = [last EXCEPT !.op = "download", !.result = Qobuz_get_stream(last.url)]
    /\ UNCHANGED <<modules, stream, remuxSt, contexts>>

NextUrl == YandexInto \/ QobuzFrom \/ YandexDownload \/ QobuzGetStream

SpecUrl == InitUrl /\ [][NextUrl]_vars

(***************************************************************************)
(* Claims about track URLs, checked under SpecUrl.                         *)
(***************************************************************************)

\* A string that is an unsigned integer in Rust's notation: decimal digits,
\* one at least, alone or after a "+".
IsUnsignedInteger(s) ==
    LET digits == IF s # <<>> /\ s[1] = "+" THEN Tail(s) ELSE s
    IN  /\ digits # <<>>
        /\ \A i \in 1..Len(digits) : \E d \in 1..10 : DigitChars[d] = digits[i]

\* The path segments of a url that parses and can be a base, counted from 0;
\* Len(SegmentsOf(u)) <= n says that segment n is missing.
SegmentsOf(u) == path_segments(Url_parse(u)).segments

IsUrl(u) == Url_parse(u).ok

====
